---- MODULE Spec2Model ----
(***************************************************************************)
(* Model of the document/RAG subsystem of SaveTheChildren_Backend:         *)
(*   - EmbeddingService (app/integrations/embedding_service.py): provider  *)
(*     selection at construction, embed_text / embed_texts with one        *)
(*     fallback, get_info;                                                 *)
(*   - DocumentChunker.chunk_text and chunk_document_by_sections           *)
(*     (app/integrations/document_chunker.py);                             *)
(*   - PostgresVectorService (app/integrations/postgres_vector_service.py):*)
(*     the document_chunks table, upsert, search, delete, stats;           *)
(*   - FileService (app/services/file_service.py): upload_file and         *)
(*     delete_file over the vector store and the files collection;         *)
(*   - ChatbotService._gather_context (app/services/chatbot_service.py):   *)
(*     the retrieval that grounds a reply.                                 *)
(* Coroutines interleave only at await points that really suspend: the     *)
(* Google and HuggingFace clients are called synchronously, the local      *)
(* SentenceTransformer runs in the executor (loop.run_in_executor).        *)
(***************************************************************************)
EXTENDS Integers, Sequences, FiniteSets, Bags, TLC

\* ------------------------------------------------------------------ bounds
MaxInFlight == 2
MaxTexts == 2
MaxTextLen == 6
MaxChunkSize == 5
MaxIterations == 4
MaxDocLen == 5
MaxChunks == 2
MaxTopK == 2

\* ------------------------------------------------- embedding: vocabulary
Providers == {"google", "local", "huggingface"}
Preferred == {"auto", "google", "local", "huggingface", "other"}

GoogleDim == 768
LocalDim == 384
HuggingFaceDim == 384
DefaultDim == 1536

NoService == [provider |-> "None", embeddings |-> "None",
              model_name |-> "None", dimension |-> DefaultDim]

\* the provider whose library a client object belongs to
ClientProvider(cl) ==
    CASE cl = "GoogleGenerativeAIEmbeddings" -> "google"
      [] cl = "SentenceTransformer" -> "local"
      [] cl = "HuggingFaceEmbeddings" -> "huggingface"
      [] OTHER -> "None"

\* length of the vectors a client object really produces
ClientDim(cl) ==
    CASE cl = "GoogleGenerativeAIEmbeddings" -> GoogleDim
      [] cl = "SentenceTransformer" -> LocalDim
      [] cl = "HuggingFaceEmbeddings" -> HuggingFaceDim
      [] OTHER -> 0

VARIABLES
    preferred,   \* settings.EMBEDDING_PROVIDER
    initOk,      \* providers whose library imports and whose client constructs
    healthy,     \* providers whose embed call succeeds
    svc,         \* EmbeddingService: provider, embeddings, model_name, dimension
    inflight,    \* the embed_text / embed_texts calls suspended in the executor
    ret,         \* what the call that ended in the last step handed its caller
                 \* (for __init__: the _init_* routines it ran, in order)
    fblog        \* what _try_fallback logged in the last step

evars == <<preferred, initOk, healthy, svc, inflight, ret, fblog>>

VARIABLES
    chunk_size,     \* DocumentChunker.chunk_size
    chunk_overlap,  \* DocumentChunker.chunk_overlap
    text,           \* chunk_text's text (the argument, then the cleaned text)
    start,          \* chunk_text's window start
    chunk_index,    \* chunk_text's running index
    chunks,         \* chunk_text's list of {text, chunk_index}
    iterations,     \* how often the while loop's body has run
    cpc             \* "call": not yet called, "loop": at the while, "done"

cvars == <<chunk_size, chunk_overlap, text, start, chunk_index, chunks,
           iterations, cpc>>

VARIABLES
    rows,        \* the table document_chunks
    dimension,   \* PostgresVectorService.dimension
    sres         \* what the vector-store call of the last step returned

svars == <<rows, dimension, sres>>

VARIABLES
    docs,        \* the collection db.files
    requests,    \* the upload_file / delete_file coroutines suspended at an await
    issued,      \* the file ids uuid4 has handed out
    ires         \* what the FileService / ChatbotService call that ended in
                 \* the last step returned

ivars == <<docs, requests, issued, ires>>

\* ------------------------------------------------- embedding: _init_*
\* each returns [ok, s]: the bool result and the service fields afterwards
_init_google(s, ok) ==
    IF "google" \in ok
    THEN [ok |-> TRUE,
          s |-> [provider |-> "google",
                 embeddings |-> "GoogleGenerativeAIEmbeddings",
                 model_name |-> "text-embedding-004",
                 dimension |-> GoogleDim]]
    ELSE [ok |-> FALSE, s |-> s]

\* _init_local with the dimension assignment forgotten
_init_local_keeps_dimension(s, ok) ==
    IF "local" \in ok
    THEN [ok |-> TRUE,
          s |-> [provider |-> "local",
                 embeddings |-> "SentenceTransformer",
                 model_name |-> "all-MiniLM-L6-v2",
                 dimension |-> s.dimension]]
    ELSE [ok |-> FALSE, s |-> s]

_init_local(s, ok) ==
    IF "local" \in ok
    THEN [ok |-> TRUE,
          s |-> [provider |-> "local",
                 embeddings |-> "SentenceTransformer",
                 model_name |-> "all-MiniLM-L6-v2",
                 dimension |-> LocalDim]]
    ELSE [ok |-> FALSE, s |-> s]

\* _init_huggingface with the dimension assignment forgotten
_init_huggingface_keeps_dimension(s, ok) ==
    IF "huggingface" \in ok
    THEN [ok |-> TRUE,
          s |-> [provider |-> "huggingface",
                 embeddings |-> "HuggingFaceEmbeddings",
                 model_name |-> "all-MiniLM-L6-v2",
                 dimension |-> s.dimension]]
    ELSE [ok |-> FALSE, s |-> s]

\* _init_huggingface setting provider and model name before the client is
\* constructed, so that a failed construction leaves them behind
_init_huggingface_assigns_first(s, ok) ==
    IF "huggingface" \in ok
    THEN [ok |-> TRUE,
          s |-> [provider |-> "huggingface",
                 embeddings |-> "HuggingFaceEmbeddings",
                 model_name |-> "all-MiniLM-L6-v2",
                 dimension |-> HuggingFaceDim]]
    ELSE [ok |-> FALSE,
          s |-> [s EXCEPT !.provider = "huggingface",
                          !.model_name = "all-MiniLM-L6-v2"]]

_init_huggingface(s, ok) ==
    IF "huggingface" \in ok
    THEN [ok |-> TRUE,
          s |-> [provider |-> "huggingface",
                 embeddings |-> "HuggingFaceEmbeddings",
                 model_name |-> "all-MiniLM-L6-v2",
                 dimension |-> HuggingFaceDim]]
    ELSE [ok |-> FALSE, s |-> s]

InitOf(p, s, ok) ==
    CASE p = "google" -> _init_google(s, ok)
      [] p = "local" -> _init_local(s, ok)
      [] p = "huggingface" -> _init_huggingface(s, ok)

\* run the _init_* routines of order one after the other until one succeeds;
\* returns [ok, s, tried]
RECURSIVE InitFirst(_, _, _)
InitFirst(order, s, ok) ==
    IF order = <<>>
    THEN [ok |-> FALSE, s |-> s, tried |-> <<>>]
    ELSE LET r == InitOf(Head(order), s, ok)
         IN IF r.ok
            THEN [ok |-> TRUE, s |-> r.s, tried |-> <<Head(order)>>]
            ELSE LET rest == InitFirst(Tail(order), r.s, ok)
                 IN [ok |-> rest.ok, s |-> rest.s,
                     tried |-> <<Head(order)>> \o rest.tried]

\* the order _init_auto probes the providers in
AutoOrder == <<"google", "local", "huggingface">>

\* __init__ falling through to the other providers for a configured name
InitOrder_substitutes(pref) ==
    CASE pref = "google" -> <<"google", "local", "huggingface">>
      [] pref = "local" -> <<"local", "huggingface", "google">>
      [] pref = "huggingface" -> <<"huggingface", "local", "google">>
      [] OTHER -> <<"google", "local", "huggingface">>

\* the order __init__ probes for a configured provider name
InitOrder(pref) ==
    CASE pref = "google" -> <<"google">>
      [] pref = "local" -> <<"local">>
      [] pref = "huggingface" -> <<"huggingface">>
      [] OTHER -> AutoOrder

\* EmbeddingService.__init__
__init__(pref, ok) == InitFirst(InitOrder(pref), NoService, ok)

available(s) == s.provider # "None"

get_info(s) ==
    [provider |-> s.provider, model |-> s.model_name,
     dimension |-> s.dimension, available |-> available(s),
     supports_fallback |-> TRUE]

\* ------------------------------------------------- embedding: _try_fallback
\* _try_fallback with the two branches of the google case swapped
FallbackOrder_swapped(current) ==
    CASE current = "google" -> <<"huggingface", "local">>
      [] current = "local" -> <<"google", "huggingface">>
      [] current = "huggingface" -> <<"google", "local">>
      [] OTHER -> <<>>

\* the providers _try_fallback tries for the provider it finds active
FallbackOrder(current) ==
    CASE current = "google" -> <<"local", "huggingface">>
      [] current = "local" -> <<"huggingface", "google">>
      [] current = "huggingface" -> <<"local", "google">>
      [] OTHER -> <<>>

\* _try_fallback giving up after its first candidate
_try_fallback_first_only(s, ok) ==
    InitFirst(SubSeq(FallbackOrder(s.provider), 1, 1), s, ok)

_try_fallback(s, ok) == InitFirst(FallbackOrder(s.provider), s, ok)

\* ------------------------------------------------- embedding: calls
NoCall == [pc |-> "idle", n |-> 0, dim0 |-> 0,
           tried |-> <<>>, current |-> "None", via |-> "None"]
NoRet == [kind |-> "none", n |-> 0, dim0 |-> 0,
          tried |-> <<>>, current |-> "None", out |-> "none", vecs |-> <<>>]

\* what the constructor leaves behind: the _init_* routines it ran
Constructed(tried) == [NoRet EXCEPT !.kind = "init", !.tried = tried]

\* the result of one client call on n texts: one vector per text
Vectors(cl, n) == [i \in 1..n |-> [by |-> ClientProvider(cl), len |-> ClientDim(cl)]]

Returned(cr, out, vecs) ==
    [kind |-> "embed", n |-> cr.n, dim0 |-> cr.dim0,
     tried |-> cr.tried, current |-> cr.current, out |-> out, vecs |-> vecs]

\* what _try_fallback writes to the log: the provider it found active
\* ("Attempting fallback from"), the provider whose call had failed, and the
\* provider it switched to ("Switched to ..."; "None": "No fallback provider
\* available")
NoFallback == [from |-> "None", failed |-> "None", to |-> "None"]
Fallback(cr, s, fb) ==
    [from |-> s.provider, failed |-> cr.tried[1],
     to |-> IF fb.ok THEN fb.s.provider ELSE "None"]

\* the except branch falling back again when the retry fails
OnFailure_cascades(cr, s, ok, h) ==
    LET fb == _try_fallback(s, ok)
        cr1 == [cr EXCEPT !.current = s.provider]
        log == Fallback(cr, s, fb)
    IN IF ~fb.ok
       THEN [s |-> fb.s, cr |-> NoCall, log |-> log,
             ret |-> Returned(cr1, "AllProvidersFailed", <<>>)]
       ELSE LET cr2 == [cr1 EXCEPT !.tried = Append(@, fb.s.provider)]
            IN IF fb.s.provider = "local"
               THEN [s |-> fb.s, log |-> log,
                     cr |-> [cr2 EXCEPT !.pc = "retry", !.via = fb.s.embeddings],
                     ret |-> NoRet]
               ELSE IF ClientProvider(fb.s.embeddings) \in h
                    THEN [s |-> fb.s, cr |-> NoCall, log |-> log,
                          ret |-> Returned(cr2, "ok", Vectors(fb.s.embeddings, cr.n))]
                    ELSE LET fb2 == _try_fallback(fb.s, ok)
                             cr3 == [cr2 EXCEPT !.tried = Append(@, fb2.s.provider)]
                         IN IF fb2.ok /\ ClientProvider(fb2.s.embeddings) \in h
                            THEN [s |-> fb2.s, cr |-> NoCall, log |-> log,
                                  ret |-> Returned(cr3, "ok", Vectors(fb2.s.embeddings, cr.n))]
                            ELSE [s |-> fb2.s, cr |-> NoCall, log |-> log,
                                  ret |-> Returned(cr3, "ProviderError", <<>>)]

\* the except branch keeping what the failed provider had already embedded
\* and asking the fallback provider for the rest only
OnFailure_keeps_partial(cr, s, ok, h) ==
    LET fb == _try_fallback(s, ok)
        cr1 == [cr EXCEPT !.current = s.provider]
        log == Fallback(cr, s, fb)
    IN IF ~fb.ok
       THEN [s |-> fb.s, cr |-> NoCall, log |-> log,
             ret |-> Returned(cr1, "AllProvidersFailed", <<>>)]
       ELSE LET cr2 == [cr1 EXCEPT !.tried = Append(@, fb.s.provider)]
            IN IF fb.s.provider = "local"
               THEN [s |-> fb.s, log |-> log,
                     cr |-> [cr2 EXCEPT !.pc = "retry", !.via = fb.s.embeddings],
                     ret |-> NoRet]
               ELSE IF ClientProvider(fb.s.embeddings) \in h
                    THEN [s |-> fb.s, cr |-> NoCall, log |-> log,
                          ret |-> Returned(cr2, "ok",
                                     Vectors(s.embeddings, 1)
                                       \o Vectors(fb.s.embeddings, cr.n - 1))]
                    ELSE [s |-> fb.s, cr |-> NoCall, log |-> log,
                          ret |-> Returned(cr2, "ProviderError", <<>>)]

\* the except branch of embed_text / embed_texts, entered by the call cr
\* when its first attempt has failed: _try_fallback, then one retry.
\* Returns [s, cr, ret, log]: the service, the call, what it returns (NoRet
\* while the retry is suspended in the executor) and the fallback's log.
OnFailure(cr, s, ok, h) ==
    LET fb == _try_fallback(s, ok)
        cr1 == [cr EXCEPT !.current = s.provider]
        log == Fallback(cr, s, fb)
    IN IF ~fb.ok
       THEN [s |-> fb.s, cr |-> NoCall, log |-> log,
             ret |-> Returned(cr1, "AllProvidersFailed", <<>>)]
       ELSE LET cr2 == [cr1 EXCEPT !.tried = Append(@, fb.s.provider)]
            IN IF fb.s.provider = "local"
               THEN [s |-> fb.s, log |-> log,
                     cr |-> [cr2 EXCEPT !.pc = "retry", !.via = fb.s.embeddings],
                     ret |-> NoRet]
               ELSE IF ClientProvider(fb.s.embeddings) \in h
                    THEN [s |-> fb.s, cr |-> NoCall, log |-> log,
                          ret |-> Returned(cr2, "ok", Vectors(fb.s.embeddings, cr.n))]
                    ELSE [s |-> fb.s, cr |-> NoCall, log |-> log,
                          ret |-> Returned(cr2, "ProviderError", <<>>)]

\* embed_text / embed_texts on n texts (embed_text: one) up to the first
\* point where the coroutine suspends or returns; but for the shape of the
\* result (a vector, a list of vectors) the two methods are the same code
OnCall(n, s, ok, h) ==
    LET cr == [NoCall EXCEPT !.n = n, !.dim0 = get_info(s).dimension]
    IN IF ~available(s)
       THEN [s |-> s, cr |-> NoCall, log |-> NoFallback,
             ret |-> Returned(cr, "NoProvider", <<>>)]
       ELSE LET cr1 == [cr EXCEPT !.tried = <<s.provider>>]
            IN IF s.provider = "local"
               THEN [s |-> s, log |-> NoFallback,
                     cr |-> [cr1 EXCEPT !.pc = "first", !.via = s.embeddings],
                     ret |-> NoRet]
               ELSE IF ClientProvider(s.embeddings) \in h
                    THEN [s |-> s, cr |-> NoCall, log |-> NoFallback,
                          ret |-> Returned(cr1, "ok", Vectors(s.embeddings, n))]
                    ELSE OnFailure(cr1, s, ok, h)

\* the executor hands back the result of SentenceTransformer.encode
OnResume(cr, s, ok, h) ==
    IF ClientProvider(cr.via) \in h
    THEN [s |-> s, cr |-> NoCall, log |-> NoFallback,
          ret |-> Returned(cr, "ok", Vectors(cr.via, cr.n))]
    ELSE IF cr.pc = "first"
         THEN OnFailure(cr, s, ok, h)
         ELSE [s |-> s, cr |-> NoCall, log |-> NoFallback,
               ret |-> Returned(cr, "ProviderError", <<>>)]

\* ------------------------------------------------- embedding: actions
\* the calls suspended in the executor form a bag: coroutines have no identity
Suspended(cr) == IF cr.pc = "idle" THEN EmptyBag ELSE SetToBag({cr})

Apply(r, rest) ==
    /\ svc' = r.s
    /\ inflight' = rest (+) Suspended(r.cr)
    /\ ret' = r.ret
    /\ fblog' = r.log
    /\ UNCHANGED <<preferred, initOk, healthy>>
    /\ UNCHANGED <<cvars, svars, ivars>>

embed_text ==
    /\ BagCardinality(inflight) < MaxInFlight
    /\ Apply(OnCall(1, svc, initOk, healthy), inflight)

embed_texts ==
    /\ BagCardinality(inflight) < MaxInFlight
    /\ \E n \in 1..MaxTexts :
          Apply(OnCall(n, svc, initOk, healthy), inflight)

Resume ==
    \E cr \in BagToSet(inflight) :
        Apply(OnResume(cr, svc, initOk, healthy), inflight (-) SetToBag({cr}))

\* a later request builds its service again (FileService.__init__ runs
\* EmbeddingService(preferred_provider=settings.EMBEDDING_PROVIDER))
NewRequest ==
    /\ inflight = EmptyBag
    /\ LET r == __init__(preferred, initOk)
       IN /\ svc' = r.s
          /\ ret' = Constructed(r.tried)
    /\ fblog' = NoFallback
    /\ UNCHANGED <<preferred, initOk, healthy, inflight>>
    /\ UNCHANGED <<cvars, svars, ivars>>

\* a provider starts or stops answering
HealthChange ==
    /\ \E p \in Providers :
          healthy' = IF p \in healthy THEN healthy \ {p} ELSE healthy \cup {p}
    /\ ret' = NoRet
    /\ fblog' = NoFallback
    /\ UNCHANGED <<preferred, initOk, svc, inflight>>
    /\ UNCHANGED <<cvars, svars, ivars>>

\* a provider's client starts or stops constructing (quota, key, network)
InitChange ==
    /\ \E p \in Providers :
          initOk' = IF p \in initOk THEN initOk \ {p} ELSE initOk \cup {p}
    /\ ret' = NoRet
    /\ fblog' = NoFallback
    /\ UNCHANGED <<preferred, healthy, svc, inflight>>
    /\ UNCHANGED <<cvars, svars, ivars>>

EInit ==
    /\ preferred \in Preferred
    /\ initOk \in SUBSET Providers
    /\ healthy \in SUBSET Providers
    /\ svc = __init__(preferred, initOk).s
    /\ inflight = EmptyBag
    /\ ret = Constructed(__init__(preferred, initOk).tried)
    /\ fblog = NoFallback

\* =================================================== DocumentChunker
\* A text is a sequence of characters, each written as a string; "NUL" and
\* "DEL" stand for the characters \x00 and \x7f.
Alphabet == {"a", ".", " ", "\n"}
Whitespace == {" ", "\n", "\t", "\r", "\f"}
ControlChars == {"NUL", "DEL"}

Min(a, b) == IF a < b THEN a ELSE b
Max(a, b) == IF a > b THEN a ELSE b

\* Python's s[i:j] for ints i, j (negative indices count from the end)
PyIndex(i, len) == IF i < 0 THEN Max(len + i, 0) ELSE Min(i, len)
PySlice(s, i, j) ==
    LET lo == PyIndex(i, Len(s))
        hi == PyIndex(j, Len(s))
    IN IF lo < hi THEN SubSeq(s, lo + 1, hi) ELSE <<>>

\* Python's s.rfind(pat): the highest 0-based index where pat starts, or -1
rfind(s, pat) ==
    LET hits == {i \in 0..(Len(s) - Len(pat)) :
                    SubSeq(s, i + 1, i + Len(pat)) = pat}
    IN IF hits = {} THEN -1 ELSE CHOOSE i \in hits : \A k \in hits : k <= i

\* Python's s.strip()
RECURSIVE lstrip(_)
lstrip(s) == IF s # <<>> /\ Head(s) \in Whitespace THEN lstrip(Tail(s)) ELSE s
RECURSIVE rstrip(_)
rstrip(s) ==
    IF s # <<>> /\ s[Len(s)] \in Whitespace
    THEN rstrip(SubSeq(s, 1, Len(s) - 1)) ELSE s
strip(s) == rstrip(lstrip(s))

\* re.sub(r'\s+', ' ', text)
RECURSIVE CollapseWhitespace(_)
CollapseWhitespace(s) ==
    IF s = <<>> THEN <<>>
    ELSE IF Head(s) \in Whitespace
         THEN <<" ">> \o CollapseWhitespace(lstrip(s))
         ELSE <<Head(s)>> \o CollapseWhitespace(Tail(s))

\* re.sub(r'[\x00-\x08\x0b-\x0c\x0e-\x1f\x7f-\x9f]', '', text)
RECURSIVE RemoveControl(_)
RemoveControl(s) ==
    IF s = <<>> THEN <<>>
    ELSE IF Head(s) \in ControlChars
         THEN RemoveControl(Tail(s))
         ELSE <<Head(s)>> \o RemoveControl(Tail(s))

_clean_text(s) == strip(RemoveControl(CollapseWhitespace(s)))

\* the window end one iteration of the while loop settles on
WindowEnd(txt, st, size) ==
    LET end0 == st + size
        window == PySlice(txt, st, end0)
        last_period == rfind(window, <<".", " ">>)
        last_newline == rfind(window, <<"\n">>)
        break_point == Max(last_period, last_newline)
    IN IF end0 < Len(txt) /\ break_point > size \div 2
       THEN st + break_point + 1
       ELSE end0

\* chunk_text up to the while loop
ChunkText ==
    /\ cpc = "call"
    /\ LET cleaned == _clean_text(text)
       IN /\ text' = cleaned
          /\ IF Len(cleaned) <= chunk_size
             THEN /\ chunks' = <<[text |-> cleaned, chunk_index |-> 0]>>
                  /\ cpc' = "done"
             ELSE /\ chunks' = <<>>
                  /\ cpc' = "loop"
    /\ start' = 0
    /\ chunk_index' = 0
    /\ UNCHANGED <<chunk_size, chunk_overlap, iterations>>
    /\ UNCHANGED <<evars, svars, ivars>>

\* one iteration, with the index counting the windows instead of the chunks
Iterate_counts_windows ==
    /\ cpc = "loop"
    /\ iterations < MaxIterations
    /\ iterations' = iterations + 1
    /\ LET end == WindowEnd(text, start, chunk_size)
           piece == strip(PySlice(text, start, end))
           next == end - chunk_overlap
       IN /\ IF piece # <<>>
             THEN chunks' = Append(chunks, [text |-> piece, chunk_index |-> chunk_index])
             ELSE UNCHANGED chunks
          /\ chunk_index' = chunk_index + 1
          /\ start' = next
          /\ cpc' = IF next >= Len(text) - chunk_overlap \/ ~(next < Len(text))
                    THEN "done" ELSE "loop"
    /\ UNCHANGED <<chunk_size, chunk_overlap, text>>
    /\ UNCHANGED <<evars, svars, ivars>>

\* one iteration, moving the start by chunk_size - overlap whatever the
\* window was shortened to
Iterate_steps_whole_window ==
    /\ cpc = "loop"
    /\ iterations < MaxIterations
    /\ iterations' = iterations + 1
    /\ LET end == WindowEnd(text, start, chunk_size)
           piece == strip(PySlice(text, start, end))
           next == start + chunk_size - chunk_overlap
       IN /\ IF piece # <<>>
             THEN /\ chunks' = Append(chunks, [text |-> piece, chunk_index |-> chunk_index])
                  /\ chunk_index' = chunk_index + 1
             ELSE UNCHANGED <<chunks, chunk_index>>
          /\ start' = next
          /\ cpc' = IF next >= Len(text) - chunk_overlap \/ ~(next < Len(text))
                    THEN "done" ELSE "loop"
    /\ UNCHANGED <<chunk_size, chunk_overlap, text>>
    /\ UNCHANGED <<evars, svars, ivars>>

\* one iteration of the while loop
Iterate ==
    /\ cpc = "loop"
    /\ iterations < MaxIterations
    /\ iterations' = iterations + 1
    /\ LET end == WindowEnd(text, start, chunk_size)
           piece == strip(PySlice(text, start, end))
           next == end - chunk_overlap
       IN /\ IF piece # <<>>
             THEN /\ chunks' = Append(chunks, [text |-> piece, chunk_index |-> chunk_index])
                  /\ chunk_index' = chunk_index + 1
             ELSE UNCHANGED <<chunks, chunk_index>>
          /\ start' = next
          /\ cpc' = IF next >= Len(text) - chunk_overlap \/ ~(next < Len(text))
                    THEN "done" ELSE "loop"
    /\ UNCHANGED <<chunk_size, chunk_overlap, text>>
    /\ UNCHANGED <<evars, svars, ivars>>

RECURSIVE Texts(_)
Texts(n) ==
    IF n = 0 THEN {<<>>}
    ELSE Texts(n - 1) \cup {Append(s, ch) : s \in {x \in Texts(n - 1) : Len(x) = n - 1}, ch \in Alphabet}

CInit ==
    /\ chunk_size \in 1..MaxChunkSize
    /\ chunk_overlap \in 0..MaxChunkSize
    /\ text \in Texts(MaxTextLen)
    /\ start = 0
    /\ chunk_index = 0
    /\ chunks = <<>>
    /\ iterations = 0
    /\ cpc = "call"

\* --------------------------------- chunker: chunk_document_by_sections
DefaultChunkSize == 1000
DefaultChunkOverlap == 200

SectionAlphabet == {"#", "1", ".", "A", "a", " ", "\n"}
Digits == {"0", "1", "2", "3", "4", "5", "6", "7", "8", "9"}
Upper == {"A", "B", "C", "D", "E", "F", "G", "H", "I", "J", "K", "L", "M",
          "N", "O", "P", "Q", "R", "S", "T", "U", "V", "W", "X", "Y", "Z"}

\* text.split('\n'): the pieces between the newlines, empty pieces included
RECURSIVE SplitLines(_)
SplitLines(s) ==
    IF \A i \in 1..Len(s) : s[i] # "\n" THEN <<s>>
    ELSE LET k == CHOOSE i \in 1..Len(s) :
                     s[i] = "\n" /\ \A j \in 1..(i - 1) : s[j] # "\n"
         IN <<SubSeq(s, 1, k - 1)>> \o SplitLines(SubSeq(s, k + 1, Len(s)))

\* '\n'.join(lines)
RECURSIVE JoinLines(_)
JoinLines(ls) ==
    IF ls = <<>> THEN <<>>
    ELSE IF Len(ls) = 1 THEN ls[1]
    ELSE ls[1] \o <<"\n">> \o JoinLines(Tail(ls))

\* re.match(r'^#+\s+.+$', l): hashes, then whitespace, then at least one
\* character that is not a newline, up to the end
MatchMarkdown(l) ==
    \E k \in 1..Len(l), m \in 1..Len(l) :
        /\ k + m < Len(l)
        /\ \A i \in 1..k : l[i] = "#"
        /\ \A i \in (k + 1)..(k + m) : l[i] \in Whitespace
        /\ \A i \in (k + m + 1)..Len(l) : l[i] # "\n"

\* re.match(r'^\d+\.\s+.+$', l)
MatchNumbered(l) ==
    \E k \in 1..Len(l), m \in 1..Len(l) :
        /\ k + 1 + m < Len(l)
        /\ \A i \in 1..k : l[i] \in Digits
        /\ l[k + 1] = "."
        /\ \A i \in (k + 2)..(k + 1 + m) : l[i] \in Whitespace
        /\ \A i \in (k + m + 2)..Len(l) : l[i] # "\n"

\* re.match(r'^[A-Z][A-Z\s]+$', l)
MatchCaps(l) ==
    /\ Len(l) >= 2
    /\ l[1] \in Upper
    /\ \A i \in 2..Len(l) : l[i] \in Upper \cup Whitespace

\* any(re.match(pattern, line.strip()) for pattern in section_headers)
is_header(line) ==
    LET l == strip(line)
    IN MatchMarkdown(l) \/ MatchNumbered(l) \/ MatchCaps(l)

\* the chunks list with the section collected in current_chunk saved
SaveSection(cs, current_chunk) ==
    LET section == strip(JoinLines(current_chunk))
    IN IF section # <<>>
       THEN Append(cs, [text |-> section, chunk_index |-> Len(cs)])
       ELSE cs

\* the for loop over the lines, then "Add last chunk"; chunk_index is
\* incremented exactly when a chunk is appended, so it equals Len(cs)
RECURSIVE SectionLoop(_, _, _)
SectionLoop(lines, current_chunk, cs) ==
    IF lines = <<>>
    THEN IF current_chunk # <<>> THEN SaveSection(cs, current_chunk) ELSE cs
    ELSE IF is_header(Head(lines)) /\ current_chunk # <<>>
         THEN SectionLoop(Tail(lines), <<Head(lines)>>,
                          SaveSection(cs, current_chunk))
         ELSE SectionLoop(Tail(lines), Append(current_chunk, Head(lines)), cs)

chunk_document_by_sections ==
    /\ cpc = "sections"
    /\ chunks' = SectionLoop(SplitLines(text), <<>>, <<>>)
    /\ chunk_index' = IF chunks' = <<>> THEN 0
                      ELSE chunks'[Len(chunks')].chunk_index
    /\ cpc' = "done"
    /\ UNCHANGED <<chunk_size, chunk_overlap, text, start, iterations>>
    /\ UNCHANGED <<evars, svars, ivars>>

RECURSIVE TextsOver(_, _)
TextsOver(alphabet, n) ==
    IF n = 0 THEN {<<>>}
    ELSE TextsOver(alphabet, n - 1) \cup
         {Append(s, ch) : s \in {x \in TextsOver(alphabet, n - 1) : Len(x) = n - 1},
                          ch \in alphabet}

\* a default DocumentChunker about to split a document by its sections
SInit ==
    /\ chunk_size = DefaultChunkSize
    /\ chunk_overlap = DefaultChunkOverlap
    /\ text \in TextsOver(SectionAlphabet, MaxDocLen)
    /\ start = 0
    /\ chunk_index = 0
    /\ chunks = <<>>
    /\ iterations = 0
    /\ cpc = "sections"

\* chunk_text with windows long enough for a sentence end to cut a window
\* short of characters that are not whitespace, over prose of letters,
\* full stops and blanks, with the overlaps up to half a window
WInit ==
    /\ chunk_size \in (MaxChunkSize + 1)..(MaxChunkSize + 2)
    /\ chunk_overlap \in 0..(chunk_size \div 2)
    /\ text \in TextsOver({"a", ".", " "}, MaxTextLen + 2)
    /\ start = 0
    /\ chunk_index = 0
    /\ chunks = <<>>
    /\ iterations = 0
    /\ cpc = "call"

\* the chunker at rest, while the embedding service is looked at
CIdle ==
    /\ chunk_size = 1 /\ chunk_overlap = 0 /\ text = <<>>
    /\ start = 0 /\ chunk_index = 0 /\ chunks = <<>>
    /\ iterations = 0 /\ cpc = "call"

\* the embedding service at rest, while the chunker is looked at
EIdle ==
    /\ preferred = "auto" /\ initOk = {} /\ healthy = {}
    /\ svc = NoService /\ inflight = EmptyBag
    /\ ret = NoRet /\ fblog = NoFallback

\* =================================================== PostgresVectorService
\* The table has the primary key id and the column embedding = Vector(384):
\* pgvector refuses a value of any other length when the statement is bound
\* and again in the database, whatever PostgresVectorService.dimension says.
ColumnDim == 384
TextLimit == 10000

FileIds == {"f1", "f2"}
StoreDims == {LocalDim, GoogleDim}

\* An embedding is written [len, v]: the vector of len components that
\* starts with the components v and is zero elsewhere.
Vecs == {<<1, 0>>, <<3, 4>>}
Embedding(len, v) == [len |-> len, v |-> v]

Dot(a, b) == a[1] * b[1] + a[2] * b[2]
Norm(a) == CHOOSE n \in 0..(Dot(a, a)) : n * n = Dot(a, a)

\* pgvector's a <#> b (negative inner product) taken for the distance
max_inner_product(a, b) == 100 - 100 * Dot(a.v, b.v)

\* pgvector's a <=> b (cosine distance), in hundredths
cosine_distance(a, b) == 100 - (100 * Dot(a.v, b.v)) \div (Norm(a.v) * Norm(b.v))

\* f"{file_id}_{chunk_index}": file_id, an underscore, the decimal digits
ChunkId(file_id, index) == <<file_id, "_", index>>

\* DocumentChunk(id=..., ..., meta_data=chunk_metadata) of one loop iteration
DocumentChunk(file_id, chunk, embedding, metadata) ==
    [id |-> ChunkId(file_id, chunk.chunk_index),
     file_id |-> file_id,
     chunk_index |-> chunk.chunk_index,
     text |-> PySlice(chunk.text, 0, TextLimit),
     chunk_size |-> Len(chunk.text),
     embedding |-> embedding,
     meta_data |-> [file_type |-> metadata.file_type,
                    file_id |-> file_id,
                    chunk_index |-> chunk.chunk_index]]

\* the loop over zip(chunks, embeddings) adding without the delete
RECURSIVE UpsertLoop_insert_only(_, _, _, _, _)
UpsertLoop_insert_only(rs, file_id, cs, embeddings, metadata) ==
    IF cs = <<>> \/ embeddings = <<>> THEN rs
    ELSE LET doc_chunk == DocumentChunk(file_id, Head(cs), Head(embeddings), metadata)
             fresh == [doc_chunk EXCEPT
                          !.chunk_index = Head(cs).chunk_index +
                              Cardinality({r \in rs : r.file_id = file_id})]
         IN UpsertLoop_insert_only(
                rs \cup {[fresh EXCEPT !.id = ChunkId(file_id, fresh.chunk_index)]},
                file_id, Tail(cs), Tail(embeddings), metadata)

\* the loop over zip(chunks, embeddings): delete the row with the chunk's
\* id, then add the new row
RECURSIVE UpsertLoop(_, _, _, _, _)
UpsertLoop(rs, file_id, cs, embeddings, metadata) ==
    IF cs = <<>> \/ embeddings = <<>> THEN rs
    ELSE LET doc_chunk == DocumentChunk(file_id, Head(cs), Head(embeddings), metadata)
             deleted == {r \in rs : r.id # doc_chunk.id}
         IN UpsertLoop(deleted \cup {doc_chunk}, file_id,
                       Tail(cs), Tail(embeddings), metadata)

\* upsert_document_chunks committing every row as it is added: a failure
\* leaves the rows of the call behind
upsert_document_chunks_row_by_row(rs, file_id, cs, embeddings, metadata, ok) ==
    LET n == Min(Len(cs), Len(embeddings))
        refused == \E i \in 1..n : embeddings[i].len # ColumnDim
    IN IF refused THEN [rows |-> rs, out |-> "raise"]
       ELSE [rows |-> UpsertLoop(rs, file_id, cs, embeddings, metadata),
             out |-> IF ok THEN "True" ELSE "raise"]

\* upsert_document_chunks: one transaction, committed after the loop. An
\* exception (ok = FALSE: the database fails; a vector the column refuses)
\* leaves the session without commit, so nothing of the call is stored.
upsert_document_chunks(rs, file_id, cs, embeddings, metadata, ok) ==
    LET n == Min(Len(cs), Len(embeddings))
        refused == \E i \in 1..n : embeddings[i].len # ColumnDim
    IN IF ~ok \/ refused
       THEN [rows |-> rs, out |-> "raise"]
       ELSE [rows |-> UpsertLoop(rs, file_id, cs, embeddings, metadata),
             out |-> "True"]

\* delete_document removing the file's first chunk only
delete_document_first_chunk(rs, file_id, ok) ==
    IF ~ok THEN [rows |-> rs, out |-> "raise"]
    ELSE [rows |-> {r \in rs : ~(r.file_id = file_id /\ r.chunk_index = 0)},
          out |-> "True"]

\* delete_document: DELETE ... WHERE file_id = :file_id, committed
delete_document(rs, file_id, ok) ==
    IF ~ok THEN [rows |-> rs, out |-> "raise"]
    ELSE [rows |-> {r \in rs : r.file_id # file_id}, out |-> "True"]

\* get_index_stats
get_index_stats(rs, dim) ==
    [total_vector_count |-> Cardinality(rs),
     unique_files |-> Cardinality({r.file_id : r \in rs}),
     dimension |-> dim,
     storage |-> "postgresql_local"]

\* filter_dict: a dictionary; None and {} are both written <<>>
NoFilter == <<>>
Filters ==
    {NoFilter} \cup {[k \in {"file_id"} |-> f] : f \in FileIds}
               \cup {[k \in {"file_type"} |-> "txt"]}

\* the rows the WHERE clause of search_similar_chunks lets through
Candidates(rs, filter_dict) ==
    IF filter_dict # <<>> /\ "file_id" \in DOMAIN filter_dict
    THEN {r \in rs : r.file_id = filter_dict["file_id"]}
    ELSE rs

\* one entry of the list search_similar_chunks returns
Hit(r, q) ==
    [id |-> r.id, score |-> 100 - cosine_distance(r.embedding, q),
     text |-> r.text, file_id |-> r.file_id,
     chunk_index |-> r.chunk_index, metadata |-> r.meta_data]

\* ORDER BY embedding <=> :q LIMIT :top_k names no second key: rows at the
\* same distance come in whatever order the database produces them, and
\* which of them the limit keeps is open as well
Ordered(rs, q, top_k) ==
    LET k == Min(top_k, Cardinality(rs))
    IN {s \in [1..k -> rs] :
          /\ \A i, j \in 1..k : i < j => s[i] # s[j]
          /\ \A i, j \in 1..k : i < j =>
                cosine_distance(s[i].embedding, q) <= cosine_distance(s[j].embedding, q)
          /\ \A r \in rs : (\A i \in 1..k : s[i] # r) =>
                \A i \in 1..k :
                    cosine_distance(s[i].embedding, q) <= cosine_distance(r.embedding, q)}

\* the lists search_similar_chunks can return
search_similar_chunks(rs, q, top_k, filter_dict) ==
    {[i \in 1..Len(s) |-> Hit(s[i], q)] :
        s \in Ordered(Candidates(rs, filter_dict), q, top_k)}

\* ------------------------------------------- vector store: the calls
\* One caller is followed: it makes a call, looks at the answer (sres) and
\* makes its next call, as test_vector_operations does.
NoStoreRes ==
    [op |-> "none", out |-> "none", file_id |-> "None", len |-> 0,
     top_k |-> 0, filter |-> NoFilter, query |-> <<>>, result |-> <<>>]

\* the chunk lists a caller passes: chunk_index 0, 1, ... as the chunkers
\* number them, each with the direction of its embedding
Pieces == {[text |-> <<"a">>, v |-> <<1, 0>>], [text |-> <<"b">>, v |-> <<3, 4>>]}
PieceLists == UNION {[1..n -> Pieces] : n \in 1..MaxChunks}
ChunksOf(ps) == [i \in 1..Len(ps) |-> [text |-> ps[i].text, chunk_index |-> i - 1]]
EmbeddingsOf(ps, len) == [i \in 1..Len(ps) |-> Embedding(len, ps[i].v)]

\* the metadata a file is stored with
MetadataOf(file_id) == [file_type |-> IF file_id = "f1" THEN "txt" ELSE "pdf"]

Upsert ==
    /\ sres = NoStoreRes
    /\ \E f \in FileIds, ps \in PieceLists, len \in StoreDims, ok \in BOOLEAN :
          LET r == upsert_document_chunks(rows, f, ChunksOf(ps),
                       EmbeddingsOf(ps, len), MetadataOf(f), ok)
          IN /\ rows' = r.rows
             /\ sres' = [NoStoreRes EXCEPT !.op = "upsert", !.out = r.out,
                                           !.file_id = f, !.len = len]
    /\ UNCHANGED <<dimension, evars, cvars, ivars>>

Search ==
    /\ sres = NoStoreRes
    /\ \E v \in Vecs, len \in StoreDims, top_k \in 0..MaxTopK,
          filter_dict \in Filters, ok \in BOOLEAN :
          IF ~ok \/ len # ColumnDim
          THEN sres' = [NoStoreRes EXCEPT !.op = "search", !.out = "raise",
                                          !.len = len, !.top_k = top_k,
                                          !.filter = filter_dict,
                                          !.query = v]
          ELSE \E res \in search_similar_chunks(rows, Embedding(len, v),
                                                top_k, filter_dict) :
                  sres' = [NoStoreRes EXCEPT !.op = "search", !.out = "list",
                                             !.len = len, !.top_k = top_k,
                                             !.filter = filter_dict,
                                             !.query = v,
                                             !.result = res]
    /\ UNCHANGED <<rows, dimension, evars, cvars, ivars>>

Delete ==
    /\ sres = NoStoreRes
    /\ \E f \in FileIds, ok \in BOOLEAN :
          LET r == delete_document(rows, f, ok)
          IN /\ rows' = r.rows
             /\ sres' = [NoStoreRes EXCEPT !.op = "delete", !.out = r.out,
                                           !.file_id = f]
    /\ UNCHANGED <<dimension, evars, cvars, ivars>>

Stats ==
    /\ sres = NoStoreRes
    /\ \E ok \in BOOLEAN :
          sres' = [NoStoreRes EXCEPT
                      !.op = "stats",
                      !.out = IF ok THEN "dict" ELSE "raise",
                      !.result = IF ok THEN <<get_index_stats(rows, dimension)>>
                                 ELSE <<>>]
    /\ UNCHANGED <<rows, dimension, evars, cvars, ivars>>

update_dimension ==
    /\ sres = NoStoreRes
    /\ \E d \in StoreDims : dimension' = d
    /\ UNCHANGED <<rows, sres, evars, cvars, ivars>>

\* the caller has its answer and goes on to its next call
NextCall ==
    /\ sres # NoStoreRes \/ ires.op # "none"
    /\ sres' = NoStoreRes
    /\ ires' = [ires EXCEPT !.op = "none", !.out = "none", !.raised = "none",
                            !.sources = <<>>, !.hits = <<>>]
    /\ UNCHANGED <<rows, dimension, docs, requests, issued, evars, cvars>>

\* PostgresVectorService(dimension) on the empty table initialize() creates
VInit ==
    /\ rows = {}
    /\ dimension \in StoreDims
    /\ sres = NoStoreRes

\* the vector store at rest
VIdle ==
    /\ rows = {} /\ dimension = ColumnDim /\ sres = NoStoreRes

\* =================================================== FileService
FileChunkSize == 1000
FileChunkOverlap == 200
FallbackStoreDim == 384

\* the while loop of chunk_text as a function of the cleaned text
RECURSIVE ChunkLoop(_, _, _, _, _)
ChunkLoop(txt, st, size, overlap, acc) ==
    LET end == WindowEnd(txt, st, size)
        piece == strip(PySlice(txt, st, end))
        acc2 == IF piece # <<>>
                THEN Append(acc, [text |-> piece, chunk_index |-> Len(acc)])
                ELSE acc
        next == end - overlap
    IN IF next >= Len(txt) - overlap \/ ~(next < Len(txt)) THEN acc2
       ELSE ChunkLoop(txt, next, size, overlap, acc2)

\* DocumentChunker(size, overlap).chunk_text(t), for configurations whose
\* loop ends
chunk_text(t, size, overlap) ==
    LET cleaned == _clean_text(t)
    IN IF Len(cleaned) <= size
       THEN <<[text |-> cleaned, chunk_index |-> 0]>>
       ELSE ChunkLoop(cleaned, 0, size, overlap, <<>>)

\* The uploaded bytes, described by what the decoders make of them:
\* decodes: file_content.decode('utf-8') succeeds; parses: json.loads /
\* PdfReader / docx.Document accepts them; body: the text they carry.
Bodies == {<<>>, <<" ">>, <<"a">>}
Contents == [decodes : BOOLEAN, parses : BOOLEAN, body : Bodies]
FileTypes == {"txt", "json", "pdf"}

\* the strings _extract_text returns instead of the file's text
CouldNotExtract(file_type) == <<"[Could not extract text from ", file_type, " file]">>
PdfPlaceholder == <<"[PDF Document: ", "N", " bytes]">>
DocxPlaceholder == <<"[DOCX Document: ", "N", " bytes]">>
BinaryPlaceholder == <<"[Binary file: ", "N", " bytes]">>
Placeholders ==
    {CouldNotExtract(t) : t \in FileTypes}
        \cup {PdfPlaceholder, DocxPlaceholder, BinaryPlaceholder}

\* json.dumps(data, indent=2) of the parsed document: never empty
JsonDump == <<"{", "}">>

\* _extract_text; lib: PyPDF2 / python-docx can be imported. A PDF is taken
\* to have one page.
_extract_text(file_content, file_type, lib) ==
    CASE file_type \in {"txt", "text", "csv"} ->
            IF file_content.decodes THEN file_content.body
            ELSE CouldNotExtract(file_type)
      [] file_type = "json" ->
            IF file_content.decodes /\ file_content.parses
            THEN JsonDump
            ELSE CouldNotExtract(file_type)
      [] file_type = "pdf" ->
            IF ~lib THEN PdfPlaceholder
            ELSE IF file_content.parses THEN file_content.body \o <<"\n">>
            ELSE CouldNotExtract(file_type)
      [] file_type \in {"doc", "docx"} ->
            IF ~lib THEN DocxPlaceholder
            ELSE IF file_content.parses THEN file_content.body
            ELSE CouldNotExtract(file_type)
      [] OTHER ->
            IF file_content.decodes THEN file_content.body
            ELSE BinaryPlaceholder

\* embed_texts on n texts by the EmbeddingService FileService.__init__ built,
\* run to its end: what it returns, the dimension the vector service was
\* given, whether the service had a provider when built and the dimension
\* of the provider active when the call ends
EmbedRun(n, pref, ok, h) ==
    LET s0 == __init__(pref, ok).s
        r1 == OnCall(n, s0, ok, h)
        r2 == IF r1.cr.pc = "idle" THEN r1 ELSE OnResume(r1.cr, r1.s, ok, h)
        r3 == IF r2.cr.pc = "idle" THEN r2 ELSE OnResume(r2.cr, r2.s, ok, h)
    IN [out |-> r3.ret.out, vecs |-> r3.ret.vecs,
        dimension |-> IF available(s0) THEN s0.dimension ELSE FallbackStoreDim,
        available |-> available(s0),
        active |-> r3.s.dimension]

\* the vector lengths of a result: the store sees nothing else of them
Lengths(e) == [e EXCEPT !.vecs = [i \in DOMAIN e.vecs |-> e.vecs[i].len]]

\* what embed_texts can answer FileService on n texts, whatever the
\* configured provider and the health of the providers
EmbedOutcomes ==
    [n \in 1..MaxChunks |->
        {Lengths(EmbedRun(n, pref, ok, h)) :
            pref \in Preferred, ok \in SUBSET Providers, h \in SUBSET Providers}]

\* the direction of the embedding of a text: a function of the text
DirectionOf(t) == IF t = <<"a">> THEN <<1, 0>> ELSE <<3, 4>>

NoRequest ==
    [op |-> "none", pc |-> "none", file_id |-> "None", file_type |-> "None",
     chunks |-> <<>>, embeddings |-> <<>>, failed |-> "none", dimension |-> 0,
     active |-> 0]

\* raised: the exception of the embedding service or the vector store that
\* was raised inside the call; written: the rows upsert_document_chunks had
\* sent to the database when it raised; sources, hits: what _gather_context
\* put in context["sources"] and what the search had answered it
NoFileRes ==
    [op |-> "none", out |-> "none", file_id |-> "None", failed |-> "none",
     chunk_count |-> 0, raised |-> "none", written |-> 0,
     sources |-> <<>>, hits |-> <<>>]

\* upload_file up to its call of upsert_document_chunks: the id, the
\* extraction, the chunks and their embeddings
upload_file ==
    /\ BagCardinality(requests) < MaxInFlight
    /\ \E file_id \in FileIds \ issued, file_content \in Contents,
          file_type \in FileTypes, lib \in BOOLEAN :
          LET text_content == _extract_text(file_content, file_type, lib)
              cs == chunk_text(text_content, FileChunkSize, FileChunkOverlap)
              failed == IF text_content = <<>> \/ text_content \in Placeholders
                        THEN "extraction" ELSE "none"
          IN IF text_content = <<>>
             THEN /\ ires' = [NoFileRes EXCEPT !.op = "upload_file",
                                 !.out = "HTTP400", !.file_id = file_id,
                                 !.failed = failed]
                  /\ UNCHANGED <<requests, issued>>
             ELSE \E e \in EmbedOutcomes[Len(cs)] :
                     IF e.out # "ok"
                     THEN /\ ires' = [NoFileRes EXCEPT !.op = "upload_file",
                                         !.out = e.out, !.file_id = file_id,
                                         !.raised = e.out,
                                         !.failed = IF failed = "none"
                                                    THEN "embedding" ELSE failed]
                          /\ UNCHANGED <<requests, issued>>
                     ELSE /\ requests' = requests (+) SetToBag({
                                 [NoRequest EXCEPT
                                     !.op = "upload_file", !.pc = "upsert",
                                     !.file_id = file_id, !.file_type = file_type,
                                     !.chunks = cs,
                                     !.embeddings =
                                         [i \in 1..Len(e.vecs) |->
                                              Embedding(e.vecs[i], DirectionOf(cs[i].text))],
                                     !.failed = failed,
                                     !.dimension = e.dimension,
                                     !.active = e.active]})
                          /\ issued' = issued \cup {file_id}
                          /\ ires' = NoFileRes
    /\ UNCHANGED <<rows, docs>>
    /\ UNCHANGED <<dimension, sres, evars, cvars>>

\* the rows the loop of upsert_document_chunks has sent to the database
\* when the call raises: those before the first row the column refuses,
\* else the k rows sent before the database failed (all of them when it is
\* the commit that fails)
WrittenBefore(embeddings, k) ==
    LET refused == {i \in 1..Len(embeddings) : embeddings[i].len # ColumnDim}
    IN IF refused = {} THEN k
       ELSE (CHOOSE i \in refused : \A j \in refused : i <= j) - 1

\* upload_file: upsert_document_chunks returns or raises
UploadUpsert ==
    /\ \E q \in BagToSet(requests), ok \in BOOLEAN, k \in 0..MaxChunks :
          /\ q.pc = "upsert"
          /\ k <= Len(q.chunks)
          /\ ok => k = Len(q.chunks)
          /\ LET r == upsert_document_chunks(rows, q.file_id, q.chunks,
                          q.embeddings, [file_type |-> q.file_type], ok)
             IN /\ rows' = r.rows
                /\ IF r.out = "True"
                   THEN /\ requests' = (requests (-) SetToBag({q}))
                                          (+) SetToBag({[q EXCEPT !.pc = "insert_one"]})
                        /\ ires' = NoFileRes
                   ELSE /\ requests' = requests (-) SetToBag({q})
                        /\ ires' = [NoFileRes EXCEPT !.op = "upload_file",
                                       !.out = "raise", !.file_id = q.file_id,
                                       !.failed = q.failed,
                                       !.raised = "raise",
                                       !.written = WrittenBefore(q.embeddings, k)]
    /\ UNCHANGED <<docs, issued>>
    /\ UNCHANGED <<dimension, sres, evars, cvars>>

\* upload_file: files_collection.insert_one returns or raises
UploadInsert ==
    /\ \E q \in BagToSet(requests), ok \in BOOLEAN :
          /\ q.pc = "insert_one"
          /\ requests' = requests (-) SetToBag({q})
          /\ IF ok
             THEN /\ docs' = docs \cup {[file_id |-> q.file_id,
                                         chunk_count |-> Len(q.chunks),
                                         indexed_in_vector_db |-> TRUE]}
                  /\ ires' = [NoFileRes EXCEPT !.op = "upload_file",
                                 !.out = "dict", !.file_id = q.file_id,
                                 !.failed = q.failed,
                                 !.chunk_count = Len(q.chunks)]
             ELSE /\ docs' = docs
                  /\ ires' = [NoFileRes EXCEPT !.op = "upload_file",
                                 !.out = "raise", !.file_id = q.file_id,
                                 !.failed = q.failed]
    /\ UNCHANGED <<rows, issued>>
    /\ UNCHANGED <<dimension, sres, evars, cvars>>

\* delete_file up to its call of delete_document: find_one
delete_file ==
    /\ BagCardinality(requests) < MaxInFlight
    /\ \E file_id \in FileIds, ok \in BOOLEAN :
          IF ~ok \/ \A d \in docs : d.file_id # file_id
          THEN /\ ires' = [NoFileRes EXCEPT !.op = "delete_file",
                              !.out = IF ok THEN "HTTP404" ELSE "raise",
                              !.file_id = file_id]
               /\ UNCHANGED requests
          ELSE /\ requests' = requests (+) SetToBag({
                      [NoRequest EXCEPT !.op = "delete_file",
                                        !.pc = "delete_document",
                                        !.file_id = file_id]})
               /\ ires' = NoFileRes
    /\ UNCHANGED <<rows, docs, issued>>
    /\ UNCHANGED <<dimension, sres, evars, cvars>>

\* delete_file: delete_document returns, or raises into the inner except,
\* which logs the error and goes on
DeleteVectors ==
    /\ \E q \in BagToSet(requests), ok \in BOOLEAN :
          /\ q.pc = "delete_document"
          /\ rows' = delete_document(rows, q.file_id, ok).rows
          /\ requests' = (requests (-) SetToBag({q}))
                            (+) SetToBag({[q EXCEPT
                                   !.pc = "delete_one",
                                   !.failed = IF ok THEN "none"
                                              ELSE "delete_document"]})
    /\ ires' = NoFileRes
    /\ UNCHANGED <<docs, issued>>
    /\ UNCHANGED <<dimension, sres, evars, cvars>>

\* delete_file: files_collection.delete_one returns or raises
DeleteOne ==
    /\ \E q \in BagToSet(requests), ok \in BOOLEAN :
          /\ q.pc = "delete_one"
          /\ requests' = requests (-) SetToBag({q})
          /\ docs' = IF ok THEN {d \in docs : d.file_id # q.file_id} ELSE docs
          /\ ires' = [NoFileRes EXCEPT !.op = "delete_file",
                         !.out = IF ok THEN "True" ELSE "raise",
                         !.file_id = q.file_id,
                         !.raised = IF q.failed = "delete_document"
                                    THEN "raise" ELSE "none"]
    /\ UNCHANGED <<rows, issued>>
    /\ UNCHANGED <<dimension, sres, evars, cvars>>

\* =================================================== ChatbotService
TopKContext == 3

\* The message, by the two keyword lists _gather_context tests it against
\* (statistics: "how many", "statistics", "data", "cases", "reports",
\* "county"; recent: "recent", "news", "latest", "incident"), and the
\* collections, by whether their summaries come back non-empty.
Messages ==
    {[statistics |-> FALSE, recent |-> FALSE],
     [statistics |-> TRUE, recent |-> TRUE]}
Summaries ==
    {[cases |-> FALSE, kenya |-> FALSE, scraped |-> FALSE],
     [cases |-> TRUE, kenya |-> TRUE, scraped |-> TRUE]}

\* what the statistics and news branches append to context["sources"]
OtherSources(message, summaries) ==
    (IF message.statistics /\ summaries.cases THEN <<"cases">> ELSE <<>>)
        \o (IF message.statistics /\ summaries.kenya THEN <<"kenya_api">> ELSE <<>>)
        \o (IF message.recent /\ summaries.scraped THEN <<"web_scraping">> ELSE <<>>)

\* what the document branch appends to context["sources"]
DocumentSources(doc_results) ==
    IF doc_results # <<>> THEN <<"uploaded_documents">> ELSE <<>>

\* what embed_text can answer a ChatbotService, whose constructor builds
\* its EmbeddingService as FileService's does
QueryOutcomes ==
    {[available |-> e.available, out |-> e.out, vecs |-> e.vecs] :
        e \in EmbedOutcomes[1]}

\* _gather_context: embed_text, search_similar_chunks(query_embedding,
\* top_k=3), then the other sources. Whatever embed_text or the search
\* raises ends in the inner except, which logs it; the context is returned
\* in every case. One caller is followed, as for the vector store.
_gather_context ==
    /\ sres = NoStoreRes /\ ires = NoFileRes
    /\ \E e \in QueryOutcomes, v \in Vecs, ok \in BOOLEAN,
          message \in Messages, summaries \in Summaries :
          LET rag_available == e.available
              searched == rag_available /\ e.out = "ok"
              answered == searched /\ ok /\ e.vecs[1] = ColumnDim
              raised == IF ~rag_available \/ answered THEN "none"
                        ELSE IF ~searched THEN e.out ELSE "raise"
          IN \E doc_results \in
                   IF answered
                   THEN search_similar_chunks(rows, Embedding(e.vecs[1], v),
                                              TopKContext, NoFilter)
                   ELSE {<<>>} :
                ires' = [NoFileRes EXCEPT
                            !.op = "_gather_context", !.out = "dict",
                            !.raised = raised,
                            !.hits = doc_results,
                            !.sources = DocumentSources(doc_results)
                                           \o OtherSources(message, summaries)]
    /\ UNCHANGED <<rows, docs, requests, issued>>
    /\ UNCHANGED <<dimension, sres, evars, cvars>>

\* FileService over an empty table and an empty collection
FInit ==
    /\ rows = {} /\ dimension = ColumnDim /\ sres = NoStoreRes
    /\ docs = {} /\ requests = EmptyBag /\ issued = {} /\ ires = NoFileRes

\* FileService at rest
FIdle ==
    /\ docs = {} /\ requests = EmptyBag /\ issued = {} /\ ires = NoFileRes

vars == <<evars, cvars, svars, ivars>>

\* the embedding service under concurrent calls and repeated construction
Init == EInit /\ CIdle /\ VIdle /\ FIdle
Next ==
    \/ embed_text
    \/ embed_texts
    \/ Resume
    \/ NewRequest
    \/ HealthChange
    \/ InitChange
Spec == Init /\ [][Next]_vars

\* chunk_text on every text and configuration within the bounds, and
\* chunk_document_by_sections on every document within the bounds
InitChunk == (CInit \/ SInit) /\ EIdle /\ VIdle /\ FIdle
NextChunk == ChunkText \/ Iterate \/ chunk_document_by_sections
SpecChunk == InitChunk /\ [][NextChunk]_vars

\* chunk_text on long windows
InitWindows == WInit /\ EIdle /\ VIdle /\ FIdle
NextWindows == ChunkText \/ Iterate
SpecWindows == InitWindows /\ [][NextWindows]_vars

\* the vector store under every sequence of calls within the bounds
InitStore == VInit /\ EIdle /\ CIdle /\ FIdle
NextStore ==
    \/ Upsert
    \/ Search
    \/ Delete
    \/ Stats
    \/ update_dimension
    \/ NextCall
SpecStore == InitStore /\ [][NextStore]_vars

\* uploads and deletions of FileService interleaved at their awaits
InitIngest == FInit /\ EIdle /\ CIdle
NextIngest ==
    \/ upload_file
    \/ UploadUpsert
    \/ UploadInsert
    \/ delete_file
    \/ DeleteVectors
    \/ DeleteOne
SpecIngest == InitIngest /\ [][NextIngest]_vars

\* the retrievals of ChatbotService over every table the calls of the
\* vector store can build
InitChat == VInit /\ EIdle /\ CIdle /\ FIdle
NextChat ==
    \/ Upsert
    \/ Delete
    \/ _gather_context
    \/ NextCall
SpecChat == InitChat /\ [][NextChat]_vars

\* =================================================== properties
\* every call the model knows of: the one that just returned and the
\* suspended ones
Calls == (IF ret.kind = "embed" THEN {ret} ELSE {}) \cup BagToSet(inflight)

\* the provider the code's branches try first when p has failed
FirstChoice(p) ==
    CASE p = "google" -> "local"
      [] p = "local" -> "huggingface"
      [] p = "huggingface" -> "local"

\* the (provider, model, dimension, client) combinations of the three providers
ProviderStates ==
    { [provider |-> "google", embeddings |-> "GoogleGenerativeAIEmbeddings",
       model_name |-> "text-embedding-004", dimension |-> 768],
      [provider |-> "local", embeddings |-> "SentenceTransformer",
       model_name |-> "all-MiniLM-L6-v2", dimension |-> 384],
      [provider |-> "huggingface", embeddings |-> "HuggingFaceEmbeddings",
       model_name |-> "all-MiniLM-L6-v2", dimension |-> 384] }

DimensionOf(p) == (CHOOSE ps \in ProviderStates : ps.provider = p).dimension

\* C1: when the call on the active provider P fails and the first provider
\* _try_fallback tries for P can be initialised, the fallback switches to it,
\* get_info names it from then on, the same call is retried on it (at once,
\* or in the executor for the local model), and a call that succeeds on its
\* retry returns vectors produced by the provider it fell back to.
C1_FailoverServesCall ==
    /\ (fblog # NoFallback /\ fblog.from = fblog.failed
          /\ FirstChoice(fblog.from) \in initOk)
       => LET q == FirstChoice(fblog.from)
          IN /\ fblog.to = q
             /\ get_info(svc).provider = q
             /\ IF q = "local"
                THEN \E cr \in BagToSet(inflight) :
                        /\ cr.pc = "retry"
                        /\ cr.tried = <<fblog.failed, q>>
                        /\ ClientProvider(cr.via) = q
                ELSE q \in healthy =>
                        /\ ret.out = "ok"
                        /\ ret.tried = <<fblog.failed, q>>
                        /\ Len(ret.vecs) = ret.n
                        /\ \A i \in 1..Len(ret.vecs) : ret.vecs[i].by = q
    /\ (ret.out = "ok" /\ Len(ret.tried) = 2)
       => /\ Len(ret.vecs) = ret.n
          /\ \A i \in 1..Len(ret.vecs) : ret.vecs[i].by = ret.tried[2]

C1_Witness ==
    /\ fblog = [from |-> "local", failed |-> "local", to |-> "huggingface"]
    /\ ret.kind = "embed" /\ ret.n = 1 /\ ret.out = "ok"
    /\ get_info(svc).provider = "huggingface"

\* C2: a fallback run by a call whose failed provider is no longer the
\* active one (another caller has already switched away from it) leaves the
\* active provider where it is.
C2_SecondFailoverIdempotent ==
    (fblog # NoFallback /\ fblog.from # fblog.failed) => svc.provider = fblog.from

\* C3 as stated: in every state the service's provider, model, dimension and
\* client are those of one of the three providers.
C3_AlwaysOneProvider == svc \in ProviderStates

\* C3 amended: in every state, also between a fallback and the retry and
\* while calls are suspended, either the service's provider, model, dimension
\* and client are those of one provider, or no provider is set and get_info
\* reports (None, None, 1536) with available false.
C3_OneProviderOrNone ==
    \/ /\ svc \in ProviderStates
       /\ get_info(svc).available
       /\ get_info(svc).provider = svc.provider
       /\ get_info(svc).model = svc.model_name
       /\ get_info(svc).dimension = svc.dimension
    \/ /\ svc = NoService
       /\ get_info(svc) = [provider |-> "None", model |-> "None",
                           dimension |-> 1536, available |-> FALSE,
                           supports_fallback |-> TRUE]

C3_Witness ==
    /\ fblog # NoFallback /\ fblog.to = "local"
    /\ BagCardinality(inflight) = 2
    /\ svc.provider = "local" /\ svc.dimension = 384

\* C4: no call makes more than two embedding attempts; the second one is on
\* the provider the fallback switched to, and a call whose retry fails ends
\* with that error after exactly two attempts.
C4_AtMostOneRetry ==
    /\ \A call \in Calls :
          /\ Len(call.tried) <= 2
          /\ Len(call.tried) = 2 =>
                /\ call.current # "None"
                /\ call.tried[2] # call.current
    /\ ret.out = "ProviderError" => Len(ret.tried) = 2
    /\ ret.out = "AllProvidersFailed" => Len(ret.tried) = 1

C4_Witness ==
    /\ ret.out = "ProviderError"
    /\ Len(ret.tried) = 2
    /\ \E p \in Providers :
          p \in (healthy \cap initOk) /\ p # ret.tried[1] /\ p # ret.tried[2]

\* C5 as stated: a call that has tried every provider ends with "All
\* embedding providers failed", and no call fails while a provider that
\* constructs and answers has not been tried.
C5_FailsOnlyWhenAllTried ==
    /\ (ret.kind = "embed" /\ ret.out # "ok"
          /\ {ret.tried[i] : i \in 1..Len(ret.tried)} = Providers)
       => ret.out = "AllProvidersFailed"
    /\ ret.out \in {"AllProvidersFailed", "ProviderError"}
       => (healthy \cap initOk) \subseteq {ret.tried[i] : i \in 1..Len(ret.tried)}

\* C5 amended: a call ends with "All embedding providers failed" exactly
\* when its attempt on the active provider failed and the fallback could
\* initialise neither of the other two providers; a call whose retry fails
\* ends with the retry's own error after two attempts, whatever the state of
\* the third provider.
C5_AllFailedMeansNoAlternative ==
    /\ ret.out = "AllProvidersFailed"
       <=> (fblog # NoFallback /\ fblog.to = "None")
    /\ ret.out = "AllProvidersFailed"
       => /\ Len(ret.tried) = 1
          /\ \A p \in Providers \ {ret.current} : p \notin initOk
    /\ ret.out = "ProviderError"
       => /\ Len(ret.tried) = 2
          /\ ret.tried[2] \notin healthy

C5_Witness ==
    /\ ret.out = "AllProvidersFailed"
    /\ ret.current = "google"
    /\ "google" \in initOk

\* C6: in the state a successful fallback leaves, the next step keeps the
\* active provider unless it is itself a fallback.
C6_FailoverSticks ==
    [][(fblog # NoFallback /\ fblog.to # "None")
          => (svc'.provider = svc.provider \/ fblog' # NoFallback)]_vars

\* C7: an embed call on n texts returns either one vector per text, all
\* produced by one provider, or an error and no vector.
C7_AllOrNothing ==
    ret.kind = "embed"
    => \/ /\ ret.out = "ok"
          /\ Len(ret.vecs) = ret.n
          /\ \A i, j \in 1..Len(ret.vecs) : ret.vecs[i].by = ret.vecs[j].by
       \/ /\ ret.out # "ok"
          /\ ret.vecs = <<>>

C7_Witness ==
    /\ ret.kind = "embed" /\ ret.n = 2 /\ ret.out = "ok"
    /\ ret.tried = <<"google", "huggingface">>

\* C8 as stated: a successful embed call on n texts returns n vectors, each
\* as long as the dimension get_info reported when the call was made.
C8_LengthIsDimensionAtCall ==
    (ret.kind = "embed" /\ ret.out = "ok")
    => /\ Len(ret.vecs) = ret.n
       /\ \A i \in 1..Len(ret.vecs) : ret.vecs[i].len = ret.dim0

\* C8 amended: a successful embed call on n texts returns n vectors, each as
\* long as the dimension of the provider that produced them: the dimension
\* get_info reported at call time when the first attempt succeeded, and the
\* dimension of the provider the fallback switched to (which get_info
\* reports when a synchronous retry returns) when the retry succeeded.
C8_LengthIsDimensionOfProducer ==
    (ret.kind = "embed" /\ ret.out = "ok")
    => /\ Len(ret.vecs) = ret.n
       /\ \A i \in 1..Len(ret.vecs) :
             /\ ret.vecs[i].len = DimensionOf(ret.tried[Len(ret.tried)])
             /\ Len(ret.tried) = 1 => ret.vecs[i].len = ret.dim0
             /\ (Len(ret.tried) = 2 /\ ret.tried[2] # "local")
                => ret.vecs[i].len = get_info(svc).dimension

C8_Witness ==
    /\ ret.kind = "embed" /\ ret.out = "ok" /\ ret.n = 2
    /\ ret.dim0 = 768
    /\ ret.vecs[1].len = 384

\* C9: a service constructed for one provider name runs only that provider's
\* _init_ routine; if it fails the service has no provider and is not
\* available, and any later step that makes another provider active is a
\* fallback run by a failed call.
C9_NoSubstitutionAtInit ==
    /\ [](preferred \in Providers /\ ret.kind = "init"
            => /\ ret.tried = <<preferred>>
               /\ IF preferred \in initOk
                  THEN svc.provider = preferred
                  ELSE svc = NoService /\ ~get_info(svc).available)
    /\ [][(preferred \in Providers /\ svc'.provider # svc.provider
             /\ svc'.provider \notin {preferred, "None"})
          => (fblog' # NoFallback /\ fblog'.to = svc'.provider)]_vars

C9_Witness ==
    /\ preferred = "local" /\ ret.kind = "init"
    /\ "local" \notin initOk /\ "google" \in initOk
    /\ ~get_info(svc).available

\* C10: with 0 <= overlap < chunk_size every iteration of chunk_text's loop
\* moves the window start forward.
C10_StartAdvances ==
    [][(cpc = "loop" /\ 0 <= chunk_overlap /\ chunk_overlap < chunk_size)
          => start' > start]_vars

\* C11: chunk_text on the empty string and on whitespace-only text returns
\* the empty list (the cleaned text is empty exactly for such input).
C11_BlankGivesNoChunks ==
    (cpc = "done" /\ text = <<>>) => chunks = <<>>

PassagesOf(rs, file_id) == {r \in rs : r.file_id = file_id}

\* C13: a Document is recorded (chunk_count, indexed = true) only once all
\* its passages are stored: in every state each recorded Document has
\* exactly chunk_count passages in the vector store.
C13_DocumentHasItsPassages ==
    \A d \in docs :
        /\ d.indexed_in_vector_db
        /\ Cardinality(PassagesOf(rows, d.file_id)) = d.chunk_count

\* C14: an upload_file whose extraction, chunking or embedding failed has
\* written nothing: no passage and no Document carries its file_id.
C14_FailedStepWritesNothing ==
    (ires.op = "upload_file" /\ ires.failed # "none") =>
        /\ PassagesOf(rows, ires.file_id) = {}
        /\ \A d \in docs : d.file_id # ires.file_id

\* C15: text that is empty, whitespace-only or a placeholder for text that
\* could not be extracted never gets past extraction: no upload carries
\* chunks of it towards the stores and no passage holds it.
C15_UnusableTextIsNeverStored ==
    LET Usable(t) == t # <<>> /\ t \notin Placeholders
    IN /\ \A q \in BagToSet(requests) :
              \A i \in 1..Len(q.chunks) : Usable(q.chunks[i].text)
       /\ \A r \in rows : Usable(r.text)

\* C16: when delete_file(file_id) has returned True, the vector store holds
\* no passage of that file.
C16_DeleteLeavesNoPassage ==
    (ires.op = "delete_file" /\ ires.out = "True") =>
        PassagesOf(rows, ires.file_id) = {}

\* C17: a delete_document(file_id) that returns leaves no passage of the
\* file (every search filtered by the file_id returns the empty list),
\* lowers total_vector_count by exactly the number of passages the file
\* had, touches no other row, and changes nothing when the file had none.
C17_DeleteRemovesExactlyTheFile ==
    [][(sres'.op = "delete" /\ sres'.out = "True") =>
          LET f == sres'.file_id
              had == PassagesOf(rows, f)
          IN /\ \A v \in Vecs, k \in 0..MaxTopK :
                    search_similar_chunks(rows', Embedding(ColumnDim, v), k,
                                          [x \in {"file_id"} |-> f]) = {<<>>}
             /\ get_index_stats(rows', dimension').total_vector_count =
                    get_index_stats(rows, dimension).total_vector_count
                        - Cardinality(had)
             /\ rows' = rows \ had
             /\ (had = {} => rows' = rows)]_vars

\* a delete has returned while the other file's passages are still stored
C17_Witness ==
    /\ sres.op = "delete" /\ sres.out = "True"
    /\ PassagesOf(rows, sres.file_id) = {}
    /\ Cardinality(rows) >= 2

\* C18: in every state of the store and for every upsert within the bounds
\* that returns True, upserting the same file_id, chunks, embeddings and
\* metadata a second time leaves the table as the first call left it,
\* whether the second call returns or raises.
C18_UpsertTwiceIsUpsertOnce ==
    \A f \in FileIds, ps \in PieceLists, len \in StoreDims :
        \A ok1, ok2 \in BOOLEAN :
            LET once == upsert_document_chunks(rows, f, ChunksOf(ps),
                            EmbeddingsOf(ps, len), MetadataOf(f), ok1)
                twice == upsert_document_chunks(once.rows, f, ChunksOf(ps),
                             EmbeddingsOf(ps, len), MetadataOf(f), ok2)
            IN once.out = "True" =>
                  /\ twice.rows = once.rows
                  /\ (ok2 => twice.out = "True")

\* an upsert has returned True on a table that holds rows of both files
C18_Witness ==
    /\ sres.op = "upsert" /\ sres.out = "True"
    /\ \A f \in FileIds : PassagesOf(rows, f) # {}

\* C19: an upsert whose embeddings are not of the store's configured
\* dimension raises.
C19_MismatchIsRejected ==
    (sres.op = "upsert" /\ sres.len # dimension) => sres.out = "raise"

\* C20: the list search returns has at most top_k entries, its scores do
\* not increase, and entries of equal score come in ascending chunk_index.
C20_SearchOrder ==
    (sres.op = "search" /\ sres.out = "list") =>
        /\ Len(sres.result) <= sres.top_k
        /\ \A i, j \in 1..Len(sres.result) : i < j =>
              /\ sres.result[i].score >= sres.result[j].score
              /\ sres.result[i].score = sres.result[j].score =>
                    sres.result[i].chunk_index <= sres.result[j].chunk_index

\* C21: every row a filtered search returns agrees with the filter on every
\* key of the filter: file_id on the row's file_id, file_type (the key
\* search_documents passes) on the row's metadata.
C21_FilterMatchesEveryField ==
    (sres.op = "search" /\ sres.out = "list" /\ sres.filter # NoFilter) =>
        \A i \in 1..Len(sres.result) :
            /\ "file_id" \in DOMAIN sres.filter
                  => sres.result[i].file_id = sres.filter["file_id"]
            /\ "file_type" \in DOMAIN sres.filter
                  => sres.result[i].metadata.file_type = sres.filter["file_type"]

\* the stored passages whose embedding is the query of the last search
StoredAsQuery ==
    {r \in Candidates(rows, sres.filter) :
        r.embedding = Embedding(sres.len, sres.query)}

C23_SourcesAreTheFilesFound ==
    ires.op = "_gather_context" =>
        /\ {ires.sources[i] : i \in 1..Len(ires.sources)} =
              {ires.hits[i].file_id : i \in 1..Len(ires.hits)}
        /\ \A i, j \in 1..Len(ires.sources) :
              i # j => ires.sources[i] # ires.sources[j]
        /\ ires.hits = <<>> => ires.sources = <<>>

\* C24: an exception of the embedding service or of the vector store raised
\* inside upload_file, delete_file or _gather_context is what the call ends
\* with: it raises that exception and returns no result.
C24_ErrorsReachTheCaller ==
    ires.raised # "none" => ires.out = ires.raised

\* the ring of the claim: google -> local -> huggingface -> google
RingNext(p) ==
    CASE p = "google" -> "local"
      [] p = "local" -> "huggingface"
      [] p = "huggingface" -> "google"

\* C25: a fallback run for the provider whose call failed switches to that
\* provider's successor in the ring google -> local -> huggingface ->
\* google whenever the successor can be initialised.
C25_FailoverFollowsRing ==
    (fblog # NoFallback /\ fblog.from = fblog.failed
        /\ RingNext(fblog.failed) \in initOk)
    => fblog.to = RingNext(fblog.failed)

\* C26 as stated: when upsert_document_chunks raises inside upload_file
\* after rows were written, those rows are in the table and the file has
\* no Document.
C26_PartialRowsStay ==
    (ires.op = "upload_file" /\ ires.raised = "raise" /\ ires.written >= 1) =>
        /\ Cardinality(PassagesOf(rows, ires.file_id)) >= ires.written
        /\ \A d \in docs : d.file_id # ires.file_id

\* C26 amended: when upsert_document_chunks raises inside upload_file, also
\* after rows were written, the table holds no row of the file (the
\* transaction was not committed) and the file has no Document.
C26_FailedUpsertLeavesNoRow ==
    (ires.op = "upload_file" /\ ires.raised = "raise") =>
        /\ PassagesOf(rows, ires.file_id) = {}
        /\ \A d \in docs : d.file_id # ires.file_id

\* an upsert has raised after its row was written, beside another file
C26_Witness ==
    /\ ires.op = "upload_file" /\ ires.raised = "raise"
    /\ ires.written >= 1
    /\ rows # {}

\* the chunks cs, each laid on a place of txt where its text occurs, leave
\* nothing but whitespace uncovered after the first `from` characters
RECURSIVE CoveredFrom(_, _, _)
CoveredFrom(txt, cs, from) ==
    IF cs = <<>>
    THEN \A i \in (from + 1)..Len(txt) : txt[i] \in Whitespace
    ELSE LET c == Head(cs).text
         IN \E at \in 0..(Len(txt) - Len(c)) :
               /\ SubSeq(txt, at + 1, at + Len(c)) = c
               /\ \A i \in (from + 1)..at : txt[i] \in Whitespace
               /\ CoveredFrom(txt, Tail(cs), Max(from, at + Len(c)))

\* C27: for cleaned text longer than chunk_size and 0 <= overlap <=
\* chunk_size // 2, every iteration of chunk_text's loop takes a window
\* [start, end) of 1..chunk_size characters, emits its stripped text as the
\* next chunk unless that is empty, and starts the next window exactly
\* overlap characters before end and after start; the window of the last
\* iteration reaches the end of the text; every chunk is non-empty and at
\* most chunk_size long; and when the loop has ended every non-whitespace
\* character of the text lies in a chunk.
C27_WindowsCoverTheText ==
    [][(cpc = "loop" /\ Len(text) > chunk_size
          /\ 0 <= chunk_overlap /\ chunk_overlap <= chunk_size \div 2) =>
          LET end == start' + chunk_overlap
              piece == strip(PySlice(text, start, end))
          IN /\ start < end /\ end - start <= chunk_size
             /\ start < start'
             /\ IF piece # <<>>
                THEN chunks' = Append(chunks, [text |-> piece,
                                               chunk_index |-> Len(chunks)])
                ELSE chunks' = chunks
             /\ \A i \in 1..Len(chunks') :
                   /\ chunks'[i].text # <<>>
                   /\ Len(chunks'[i].text) <= chunk_size
             /\ cpc' = "done" =>
                   /\ end >= Len(text)
                   /\ CoveredFrom(text', chunks', 0)]_vars

\* chunk_text has ended after two or more overlapping windows, the first
\* of them cut at a sentence end before a character that is not whitespace
C27_Witness ==
    /\ cpc = "done" /\ Len(text) > chunk_size
    /\ 1 <= chunk_overlap /\ chunk_overlap <= chunk_size \div 2
    /\ Len(chunks) >= 2 /\ iterations >= 2
    /\ WindowEnd(text, 0, chunk_size) < chunk_size - 1
    /\ text[chunk_size] \notin Whitespace

\* C28: in every state of the table, an upsert that returns True leaves
\* for its file_id exactly the rows of the chunks it was given: nothing an
\* earlier upsert of the file stored under a higher chunk_index remains.
C28_UpsertReplacesTheFile ==
    \A f \in FileIds, ps \in PieceLists, len \in StoreDims :
        LET r == upsert_document_chunks(rows, f, ChunksOf(ps),
                     EmbeddingsOf(ps, len), MetadataOf(f), TRUE)
        IN r.out = "True" =>
              PassagesOf(r.rows, f) =
                  {DocumentChunk(f, ChunksOf(ps)[i], EmbeddingsOf(ps, len)[i],
                                 MetadataOf(f)) : i \in 1..Len(ps)}

\* C29: for every upload whose upsert has succeeded, the dimension the
\* vector service of that FileService reports in get_index_stats equals the
\* dimension of the provider active in its embedding service (after a
\* failover too) and the length of every embedding stored for the file.
C29_StoreDimensionIsTheProviders ==
    \A q \in BagToSet(requests) :
        q.pc = "insert_one" =>
            /\ get_index_stats(rows, q.dimension).dimension = q.active
            /\ \A r \in PassagesOf(rows, q.file_id) :
                  r.embedding.len = get_index_stats(rows, q.dimension).dimension

\* a step in which a new embed_text / embed_texts call is made: one more
\* call is suspended, or a call returned without any call leaving the bag
NewEmbedCall ==
    \/ BagCardinality(inflight') > BagCardinality(inflight)
    \/ inflight' = inflight /\ ret'.kind = "embed"

\* the call made in this step makes its first attempt on provider p with
\* the client cl
FirstAttemptOn(p, cl) ==
    IF BagCardinality(inflight') > BagCardinality(inflight)
    THEN \E cr \in BagToSet(inflight') :
            /\ CopiesIn(cr, inflight') > CopiesIn(cr, inflight)
            /\ cr.tried[1] = p
            /\ cr.pc = "first" => cr.via = cl
    ELSE ret'.tried # <<>> /\ ret'.tried[1] = p

\* C30: a step in which _try_fallback initialises no alternative leaves
\* provider, model name, dimension and client as they were and ends the
\* call with "All embedding providers failed"; the service changes only
\* when a fallback succeeds or the service is constructed; and every embed
\* call made on a service with a provider, the one after a failed fallback
\* included, makes its first attempt on the provider and client the service
\* then has.
C30_FailedFallbackChangesNothing ==
    [][/\ (fblog' # NoFallback /\ fblog'.to = "None")
          => /\ svc' = svc
             /\ ret'.kind = "embed" /\ ret'.out = "AllProvidersFailed"
             /\ ret'.vecs = <<>>
       /\ svc' # svc
          => \/ fblog' # NoFallback /\ fblog'.to = svc'.provider
             \/ ret'.kind = "init"
       /\ (NewEmbedCall /\ available(svc))
          => FirstAttemptOn(svc.provider, svc.embeddings)]_vars

C30_Witness ==
    /\ fblog = [from |-> "huggingface", failed |-> "huggingface", to |-> "None"]
    /\ ret.kind = "embed" /\ ret.out = "AllProvidersFailed"
    /\ svc.provider = "huggingface" /\ svc.embeddings = "HuggingFaceEmbeddings"
    /\ svc.dimension = HuggingFaceDim
    /\ inflight # EmptyBag

====
